---------------------------- MODULE Spec2Model ----------------------------
(***************************************************************************)
(* A model of gewv_timeseries_client.TimeseriesClient: one facade object   *)
(* over an external InfluxDB client.  The facade's fields, the two list    *)
(* objects write_a_dataframe can append to, and the external store are the *)
(* state; every method is one action.  The observation of the last call    *)
(* (its arguments, the calls it made on the external client, what it       *)
(* raised and returned) is kept in op/args/calls/raised/result.            *)
(***************************************************************************)
EXTENDS Naturals, Sequences, FiniteSets, TLC

VARIABLES
    _client,        \* self._client: Unset before __init__ completes
    _write_api,     \* self._write_api
    _query_api,     \* self._query_api
    _bucket_api,    \* self._bucket_api
    default_tag_columns, \* the list object behind the default of tag_columns
    caller_tag_columns,  \* a list object owned by the caller
    store_buckets,  \* bucket names that exist in the external store
    store_health,   \* the value the external client's health() returns now
    op,             \* name of the last method called
    args,           \* its arguments
    calls,          \* the calls it made on the external client, in order
    raised,         \* the exception it raised, or NoError
    result,         \* what it returned
    query           \* build_query's local `query` when the last call ended

vars == << _client, _write_api, _query_api, _bucket_api, default_tag_columns,
           caller_tag_columns, store_buckets, store_health,
           op, args, calls, raised, result, query >>

facade == << _client, _write_api, _query_api, _bucket_api >>
lists  == << default_tag_columns, caller_tag_columns >>
store  == << store_buckets, store_health >>

---------------------------------------------------------------------------
(* Bounds of the model. *)

MaxFields  == 2   \* entries of a field-filter mapping
MaxTags    == 2   \* entries of an additional_tags mapping
MaxTagLen  == 3   \* longest tag-column list a call may produce
MaxRows    == 3   \* rows of the largest frame written

---------------------------------------------------------------------------
(* Python values. *)

Unset    == [type |-> "unset"]
PyNone   == [type |-> "NoneType"]
PyFalse  == [type |-> "bool", v |-> "False"]
PyTrue   == [type |-> "bool", v |-> "True"]
PyStr(s) == [type |-> "str", v |-> s]
HealthCheck(status) == [type |-> "HealthCheck", v |-> status]
BoundMethod(name)   == [type |-> "method", v |-> name]

\* A datetime with its naive rendering and its tzinfo ("None" when naive).
DateTime(naive, tz) == [type |-> "datetime", v |-> naive, tzinfo |-> tz]

\* Python truthiness of the values above.
Truthy(x) ==
    CASE x.type = "NoneType" -> FALSE
      [] x.type = "bool"     -> x.v = "True"
      [] x.type = "str"      -> x.v # ""
      [] OTHER               -> TRUE

\* datetime.isoformat(): the offset is rendered only for an aware value.
isoformat(dt) == IF dt.tzinfo = "None" THEN dt.v ELSE dt.v \o dt.tzinfo

---------------------------------------------------------------------------
(* Exceptions. *)

NoError              == [type |-> "none", status |-> 0, msg |-> ""]
Exception(m)         == [type |-> "Exception", status |-> 0, msg |-> m]
ApiException(status) == [type |-> "ApiException", status |-> status, msg |-> ""]
ConnectionError      == [type |-> "ConnectionError", status |-> 0, msg |-> ""]

\* the status create_bucket treats as "bucket already exists"
StatusConflict       == 422

\* What a call on the external client may do besides succeed.
Faults == { NoError, ApiException(StatusConflict), ApiException(401),
            ApiException(500), ConnectionError }

\* One call on the external client: its receiver, method, argument and outcome
\* (the value returned, or the exception raised).
Call(api, method, arg, out) == [api |-> api, method |-> method, arg |-> arg, out |-> out]

IsError(x) == x.type \in {"Exception", "ApiException", "ConnectionError"}

---------------------------------------------------------------------------
(* test_datetime and build_query. *)

\* variant: the tzinfo check is missing
test_datetime_type_only(dt) ==
    IF dt.type # "datetime"
    THEN Exception("The delivered datetime is not from type datetime.")
    ELSE NoError

test_datetime(dt) ==
    IF dt.type # "datetime"
    THEN Exception("The delivered datetime is not from type datetime.")
    ELSE IF dt.tzinfo = "None"
    THEN Exception("The time " \o isoformat(dt) \o " has no timezone info. That is necassary.")
    ELSE NoError

Stage(name, params) == [stage |-> name, params |-> params]

FromStage(project)  == Stage("from", << <<"bucket", project>> >>)
RangeBoth(s, e)     == Stage("range", << <<"start", isoformat(s)>>, <<"stop", isoformat(e)>> >>)
RangeStart(s)       == Stage("range", << <<"start", isoformat(s)>> >>)
RangeStop(e)        == Stage("range", << <<"stop", isoformat(e)>> >>)
FilterStage(f, v)   == Stage("filter", << <<f, v>> >>)
AggregateStage(p)   == Stage("aggregateWindow",
                             << <<"every", p>>, <<"fn", "mean">>, <<"createEmpty", "true">> >>)
YieldStage          == Stage("yield", << <<"name", "mean">> >>)

Built(q)     == [raised |-> NoError, query |-> q]
Failed(e, q) == [raised |-> e, query |-> q]

\* variant: each filter is put in front of the ones built so far
RECURSIVE FilterStages_reversed(_)
FilterStages_reversed(fields) ==
    IF fields = << >> THEN << >>
    ELSE FilterStages_reversed(Tail(fields)) \o << FilterStage(Head(fields)[1], Head(fields)[2]) >>

\* the loop over fields.items(): one filter stage per entry, in mapping order
RECURSIVE FilterStages(_)
FilterStages(fields) ==
    IF fields = << >> THEN << >>
    ELSE << FilterStage(Head(fields)[1], Head(fields)[2]) >> \o FilterStages(Tail(fields))

\* the trailing aggregateWindow |> yield text
Suffix(precision) == << AggregateStage(precision), YieldStage >>

\* variant: the end-only branch renders its bound as start
RangeClause_stop_as_start(q, start_time, end_time) ==
    IF start_time # PyNone /\ end_time # PyNone
    THEN IF test_datetime(start_time) # NoError
         THEN Failed(test_datetime(start_time), q)
         ELSE IF test_datetime(end_time) # NoError
         THEN Failed(test_datetime(end_time), q)
         ELSE Built(Append(q, RangeBoth(start_time, end_time)))
    ELSE IF start_time # PyNone
    THEN IF test_datetime(start_time) # NoError
         THEN Failed(test_datetime(start_time), q)
         ELSE Built(Append(q, RangeStart(start_time)))
    ELSE IF end_time # PyNone
    THEN IF test_datetime(end_time) # NoError
         THEN Failed(test_datetime(end_time), q)
         ELSE Built(Append(q, RangeStart(end_time)))
    ELSE Built(q)

\* the if/elif chain on start_time and end_time; the query so far is q
RangeClause(q, start_time, end_time) ==
    IF start_time # PyNone /\ end_time # PyNone
    THEN IF test_datetime(start_time) # NoError
         THEN Failed(test_datetime(start_time), q)
         ELSE IF test_datetime(end_time) # NoError
         THEN Failed(test_datetime(end_time), q)
         ELSE Built(Append(q, RangeBoth(start_time, end_time)))
    ELSE IF start_time # PyNone
    THEN IF test_datetime(start_time) # NoError
         THEN Failed(test_datetime(start_time), q)
         ELSE Built(Append(q, RangeStart(start_time)))
    ELSE IF end_time # PyNone
    THEN IF test_datetime(end_time) # NoError
         THEN Failed(test_datetime(end_time), q)
         ELSE Built(Append(q, RangeStop(end_time)))
    ELSE Built(q)

build_query(project, fields, start_time, end_time, precision) ==
    LET r == RangeClause(<< FromStage(project) >>, start_time, end_time)
    IN  IF r.raised # NoError THEN r
        ELSE Built(r.query \o FilterStages(fields) \o Suffix(precision))

---------------------------------------------------------------------------
(* The external client, as far as the facade uses it. *)

InfluxDBClient(url, token, org) ==
    [type |-> "InfluxDBClient", url |-> url, token |-> token, org |-> org]

WriteApi(c)   == [type |-> "WriteApi",   client |-> c, write_options |-> "SYNCHRONOUS"]
QueryApi(c)   == [type |-> "QueryApi",   client |-> c]
BucketsApi(c) == [type |-> "BucketsApi", client |-> c]

Ok == [type |-> "ok"]
QueryText(q) == [type |-> "str", query |-> q]
Tables(q)    == [type |-> "List[FluxTable]", of |-> q]
DataFrameOf(q) == [type |-> "DataFrame", of |-> q]

\* buckets_api.create_bucket: an injected fault, the conflict status when the
\* bucket exists, success otherwise
BucketOutcome(bucket, fault) ==
    IF fault # NoError THEN fault
    ELSE IF bucket \in store_buckets THEN ApiException(StatusConflict)
    ELSE Ok

\* any other delegate call: the fault, or the value v
Outcome(fault, v) == IF fault # NoError THEN fault ELSE v

\* no method of the facade has run since the last step of its environment
NoCall ==
    /\ op = "none"
    /\ args = PyNone
    /\ calls = << >>
    /\ raised = NoError
    /\ result = PyNone
    /\ query = << >>

\* a step of the environment: the observation of the last call is dropped
Forget ==
    /\ op' = "none"
    /\ args' = PyNone
    /\ calls' = << >>
    /\ raised' = NoError
    /\ result' = PyNone
    /\ query' = << >>

---------------------------------------------------------------------------
(* Initial state: no facade constructed, no call made yet. *)

Init ==
    /\ _client = Unset
    /\ _write_api = Unset
    /\ _query_api = Unset
    /\ _bucket_api = Unset
    /\ default_tag_columns = << >>
    /\ caller_tag_columns = << "device" >>
    /\ store_buckets = {}
    /\ store_health = HealthCheck("pass")
    /\ NoCall

Constructed == _client # Unset

---------------------------------------------------------------------------
(* __init__ *)

\* variant: the token is not checked
MissingField_no_token(host, port, token) ==
    IF host = PyNone THEN Exception("Missing Host Address for Timeseries DB Client.")
    ELSE IF port = PyNone THEN Exception("Missing Port for Timeseries DB Client.")
    ELSE NoError

\* the first missing connection field, checked in the order host, port, token
MissingField(host, port, token) ==
    IF host = PyNone THEN Exception("Missing Host Address for Timeseries DB Client.")
    ELSE IF port = PyNone THEN Exception("Missing Port for Timeseries DB Client.")
    ELSE IF token = PyNone THEN Exception("Missing Token for Timeseries DB Client.")
    ELSE NoError

\* the client __init__ ends up with, and the constructor call it made to get it
\* str() of a value inside an f-string
Format(x) == IF x = PyNone THEN "None" ELSE x.v

InitClient(host, port, organization, token, client) ==
    IF client = PyNone
    THEN InfluxDBClient("https://" \o Format(host) \o ":" \o Format(port), token, organization)
    ELSE client

__init__(host, port, organization, token, client) ==
    /\ ~Constructed
    /\ op' = "__init__"
    /\ args' = [host |-> host, port |-> port, organization |-> organization,
                token |-> token, client |-> client]
    /\ result' = PyNone
    /\ query' = << >>
    /\ IF client = PyNone /\ MissingField(host, port, token) # NoError
       THEN /\ raised' = MissingField(host, port, token)
            /\ calls' = << >>
            /\ UNCHANGED facade
       ELSE LET c == InitClient(host, port, organization, token, client)
            IN  /\ raised' = NoError
                /\ _client' = c
                /\ _write_api' = WriteApi(c)
                /\ _query_api' = QueryApi(c)
                /\ _bucket_api' = BucketsApi(c)
                /\ calls' =
                     (IF client = PyNone
                      THEN << Call("InfluxDBClient", "__init__", PyNone, c) >>
                      ELSE << >>)
                     \o << Call("client", "write_api", PyStr("SYNCHRONOUS"), WriteApi(c)),
                           Call("client", "query_api", PyNone, QueryApi(c)),
                           Call("client", "buckets_api", PyNone, BucketsApi(c)) >>
    /\ UNCHANGED << lists, store >>

---------------------------------------------------------------------------
(* health and connect *)

health(fault) ==
    /\ Constructed
    /\ op' = "health"
    /\ args' = PyNone
    /\ calls' = << Call("client", "health", PyNone, Outcome(fault, store_health)) >>
    /\ raised' = fault
    /\ result' = IF fault = NoError THEN store_health ELSE PyNone
    /\ query' = << >>
    /\ UNCHANGED << facade, lists, store >>

\* variant: only None counts as unreachable
connect_check_is_none(h) ==
    IF h = PyNone THEN Exception("Influx DB is not reachable.") ELSE NoError

\* what connect raises on the value health() returned
connect_check(h) ==
    IF ~Truthy(h) THEN Exception("Influx DB is not reachable.") ELSE NoError

connect(fault) ==
    /\ Constructed
    /\ op' = "connect"
    /\ args' = PyNone
    /\ calls' = << Call("client", "health", PyNone, Outcome(fault, store_health)) >>
    /\ raised' = IF fault # NoError THEN fault ELSE connect_check(store_health)
    /\ result' = PyNone
    /\ query' = << >>
    /\ UNCHANGED << facade, lists, store >>

\* the store's health changes on its own
StoreHealthChanges(h) ==
    /\ store_health # h
    /\ store_health' = h
    /\ Forget
    /\ UNCHANGED << facade, lists, store_buckets >>

---------------------------------------------------------------------------
(* create_bucket *)

\* variant: every exception is re-raised
create_bucket_except_reraise(out) ==
    IF ~IsError(out) THEN NoError ELSE out

\* variant: every ApiException is dropped
create_bucket_except_any_status(out) ==
    IF ~IsError(out) THEN NoError
    ELSE IF out.type = "ApiException" THEN NoError
    ELSE out

\* the except clause: an ApiException with status 422 is dropped, anything
\* else is re-raised
create_bucket_except(out) ==
    IF ~IsError(out) THEN NoError
    ELSE IF out.type = "ApiException"
    THEN (IF out.status # StatusConflict THEN out ELSE NoError)
    ELSE out

create_bucket(bucket, fault) ==
    /\ Constructed
    /\ op' = "create_bucket"
    /\ args' = [bucket |-> bucket]
    /\ calls' = << Call("bucket_api", "create_bucket", PyStr(bucket),
                        BucketOutcome(bucket, fault)) >>
    /\ raised' = create_bucket_except(BucketOutcome(bucket, fault))
    /\ store_buckets' = IF BucketOutcome(bucket, fault) = Ok
                        THEN store_buckets \cup {bucket} ELSE store_buckets
    /\ result' = PyNone
    /\ query' = << >>
    /\ UNCHANGED << facade, lists, store_health >>

---------------------------------------------------------------------------
(* get_points, get_dataframe and build_query *)

\* variant: the read path calls health()
self_health_called == store_health

\* `self.health` as the read path evaluates it: the attribute, not a call
self_health == BoundMethod("health")

\* what `if not self.health: raise` raises
read_precondition ==
    IF ~Truthy(self_health)
    THEN Exception("Influx DB is not reachable or unhealthy.")
    ELSE NoError

\* the keyword arguments of a read, as build_query receives them
Kwargs(project, fields, start_time, end_time, precision) ==
    [project |-> project, fields |-> fields, start_time |-> start_time,
     end_time |-> end_time, precision |-> precision]

BuildFor(kw) == build_query(kw.project, kw.fields, kw.start_time, kw.end_time, kw.precision)

\* the body shared by get_points and get_dataframe: `method` is the query
\* delegate's method and `value` what it returns on success
Read(name, method, value, kw, fault) ==
    /\ op' = name
    /\ args' = kw
    /\ IF read_precondition # NoError
       THEN /\ raised' = read_precondition
            /\ calls' = << >>
            /\ result' = PyNone
            /\ query' = << >>
       ELSE IF BuildFor(kw).raised # NoError
       THEN /\ raised' = BuildFor(kw).raised
            /\ calls' = << >>
            /\ result' = PyNone
            /\ query' = BuildFor(kw).query
       ELSE /\ raised' = fault
            /\ calls' = << Call("query_api", method, QueryText(BuildFor(kw).query),
                                Outcome(fault, value)) >>
            /\ result' = IF fault = NoError THEN value ELSE PyNone
            /\ query' = BuildFor(kw).query
    /\ UNCHANGED << facade, lists, store >>

get_points(kw, fault) ==
    /\ Constructed
    /\ Read("get_points", "query", Tables(BuildFor(kw).query), kw, fault)

get_dataframe(kw, fault) ==
    /\ Constructed
    /\ Read("get_dataframe", "query_data_frame", DataFrameOf(BuildFor(kw).query), kw, fault)

\* build_query called directly
BuildQuery(kw) ==
    /\ Constructed
    /\ op' = "build_query"
    /\ args' = kw
    /\ raised' = BuildFor(kw).raised
    /\ calls' = << >>
    /\ result' = IF BuildFor(kw).raised = NoError
                 THEN QueryText(BuildFor(kw).query) ELSE PyNone
    /\ query' = BuildFor(kw).query
    /\ UNCHANGED << facade, lists, store >>

---------------------------------------------------------------------------
(* write_points and write_a_dataframe *)

write_points(project, points, fault) ==
    /\ Constructed
    /\ op' = "write_points"
    /\ args' = [project |-> project, points |-> points]
    /\ calls' = << Call("write_api", "write", [bucket |-> project, record |-> points],
                        Outcome(fault, Ok)) >>
    /\ raised' = fault
    /\ result' = PyNone
    /\ query' = << >>
    /\ UNCHANGED << facade, lists, store >>

\* a pandas frame: row index, column names, and one value sequence per column
DataFrame(index, columns, data) == [index |-> index, columns |-> columns, data |-> data]

Rows(df) == Len(df.index)

\* [tag] * n
Repeat(tag, n) == [i \in 1..n |-> tag]

\* df[name] = values: a new last column, or the named column replaced
SetColumn(df, name, values) ==
    IF \E i \in 1..Len(df.columns) : df.columns[i] = name
    THEN DataFrame(df.index, df.columns,
                   [i \in 1..Len(df.columns) |->
                       IF df.columns[i] = name THEN values ELSE df.data[i]])
    ELSE DataFrame(df.index, Append(df.columns, name), Append(df.data, values))

\* pd.concat([a, b], axis=1) of two frames over the same index
ConcatColumns(a, b) == DataFrame(a.index, a.columns \o b.columns, a.data \o b.data)

TagState(tag_columns, tags_dataframe) ==
    [tag_columns |-> tag_columns, tags_dataframe |-> tags_dataframe]

\* variant: the tag column is added to the frame but not to the tag-column list
TagStep_no_append(st, item, n) ==
    TagState(st.tag_columns,
             SetColumn(st.tags_dataframe, item[1], Repeat(item[2], n)))

\* one pass of `for tag_name, tag in additional_tags.items()`
TagStep(st, item, n) ==
    TagState(Append(st.tag_columns, item[1]),
             SetColumn(st.tags_dataframe, item[1], Repeat(item[2], n)))

RECURSIVE TagLoop(_, _, _)
TagLoop(st, items, n) ==
    IF items = << >> THEN st
    ELSE TagLoop(TagStep(st, Head(items), n), Tail(items), n)

Dict(items) == [type |-> "dict", items |-> items]

\* the list object the parameter tag_columns is bound to: the default's own
\* list when the argument is omitted, the caller's list otherwise
BoundList(tag_columns) ==
    IF tag_columns = "omitted" THEN default_tag_columns ELSE caller_tag_columns

WriteArg(project, record, measurement_name, tag_columns) ==
    [bucket |-> project, record |-> record,
     data_frame_measurement_name |-> measurement_name,
     data_frame_tag_columns |-> tag_columns]

write_a_dataframe(project, measurement_name, dataframe, tag_columns, additional_tags, fault) ==
    /\ Constructed
    /\ additional_tags # PyNone =>
          Len(BoundList(tag_columns)) + Len(additional_tags.items) <= MaxTagLen
    /\ op' = "write_a_dataframe"
    /\ args' = [project |-> project, measurement_name |-> measurement_name,
                dataframe |-> dataframe, tag_columns |-> tag_columns,
                tag_columns_at_entry |-> BoundList(tag_columns),
                caller_list_at_entry |-> caller_tag_columns,
                additional_tags |-> additional_tags]
    /\ raised' = fault
    /\ result' = PyNone
    /\ query' = << >>
    /\ IF additional_tags = PyNone
       THEN /\ calls' = << Call("write_api", "write",
                                WriteArg(project, dataframe, measurement_name,
                                         BoundList(tag_columns)),
                                Outcome(fault, Ok)) >>
            /\ UNCHANGED lists
       ELSE LET st == TagLoop(TagState(BoundList(tag_columns),
                                       DataFrame(dataframe.index, << >>, << >>)),
                              additional_tags.items, Rows(dataframe))
                combined_frames == ConcatColumns(dataframe, st.tags_dataframe)
            IN  /\ calls' = << Call("write_api", "write",
                                    WriteArg(project, combined_frames, measurement_name,
                                             st.tag_columns),
                                    Outcome(fault, Ok)) >>
                /\ IF tag_columns = "omitted"
                   THEN /\ default_tag_columns' = st.tag_columns
                        /\ UNCHANGED caller_tag_columns
                   ELSE /\ caller_tag_columns' = st.tag_columns
                        /\ UNCHANGED default_tag_columns
    /\ UNCHANGED << facade, store >>

\* the caller binds its variable to a new list
CallerNewList(l) ==
    /\ caller_tag_columns # l
    /\ caller_tag_columns' = l
    /\ Forget
    /\ UNCHANGED << facade, default_tag_columns, store >>

---------------------------------------------------------------------------
(* Inputs. *)

Projects == { "proj" }
Buckets  == { "b1", "b2" }

Aware1   == DateTime("2021-01-01T00:00:00", "+00:00")
Aware2   == DateTime("2021-06-01T12:30:00", "+02:00")
Naive1   == DateTime("2021-01-01T00:00:00", "None")
Naive2   == DateTime("2021-06-01T12:30:00", "None")
NotADate == PyStr("2021-01-01T00:00:00+00:00")

StartTimes == { PyNone, Aware1, Naive1, NotADate }
EndTimes   == { PyNone, Aware2, Naive2, NotADate }
Precisions == { "5m" }

\* mappings as Python keeps them: entries in insertion order, keys distinct
Mappings(keys, max) ==
    { m \in UNION { [1..n -> keys] : n \in 0..max } :
        \A i, j \in 1..Len(m) : i # j => m[i] # m[j] }

AsItems(m, value) == [i \in 1..Len(m) |-> << m[i], value[m[i]] >>]

FieldKeys  == { "device", "room", "unit" }
FieldValue == [k \in FieldKeys |-> CASE k = "device" -> "d1" [] k = "room" -> "r7" [] OTHER -> "kW"]
FieldMaps  == { AsItems(m, FieldValue) : m \in Mappings(FieldKeys, MaxFields) }

TagNames   == { "site", "line" }
TagValue   == [k \in TagNames |-> IF k = "site" THEN "A" ELSE "B"]
TagMaps    == { Dict(AsItems(m, TagValue)) : m \in Mappings(TagNames, MaxTags) }

AllKwargs ==
    { Kwargs(p, f, s, e, pr) :
        p \in Projects, f \in FieldMaps, s \in StartTimes, e \in EndTimes, pr \in Precisions }

\* a frame of n rows with one tag column and one field column
FrameOf(n) ==
    DataFrame([i \in 1..n |-> i], << "device", "value" >>,
              << Repeat("d1", n), Repeat("1.5", n) >>)

Frames == { FrameOf(n) : n \in {0, MaxRows} }

Points == [type |-> "List[Point]"]

ExternalClient == InfluxDBClient("https://env.example.org:8086", PyStr("env-token"), "env-org")

HealthValues == { HealthCheck("pass"), HealthCheck("fail"), PyNone, PyFalse }

Hosts   == { PyNone, PyStr("influx.example.org") }
Ports   == { PyNone, [type |-> "int", v |-> "8086"] }
Tokens  == { PyNone, PyStr("secret") }
Clients == { PyNone, ExternalClient }

\* the reads of the lifecycle specification: a valid and an invalid bound, with
\* and without filters
SomeKwargs ==
    { kw \in AllKwargs :
        /\ kw.start_time \in { PyNone, Aware1, Naive1 }
        /\ kw.end_time \in { PyNone, Aware2 }
        /\ kw.fields \in { << >>, << <<"device", "d1">> >> } }

QueryFaults == { NoError, ApiException(500) }

---------------------------------------------------------------------------
(* Spec: the whole facade against a store that may fail any call. *)

Next ==
    \/ \E host \in Hosts, port \in Ports, token \in Tokens, client \in Clients :
          __init__(host, port, "GEWV", token, client)
    \/ \E fault \in Faults : health(fault)
    \/ \E fault \in Faults : connect(fault)
    \/ \E h \in HealthValues : StoreHealthChanges(h)
    \/ \E bucket \in Buckets, fault \in Faults : create_bucket(bucket, fault)
    \/ \E kw \in SomeKwargs, fault \in Faults : get_points(kw, fault)
    \/ \E kw \in SomeKwargs, fault \in Faults : get_dataframe(kw, fault)
    \/ \E project \in Projects, fault \in Faults : write_points(project, Points, fault)
    \/ \E project \in Projects, tag_columns \in { "omitted", "caller" }, fault \in Faults :
          write_a_dataframe(project, "power", FrameOf(MaxRows), tag_columns, PyNone, fault)

Spec == Init /\ [][Next]_vars

(* SpecQuery: every combination of query parameters, through the two reads  *)
(* and build_query itself.                                                  *)

NextQuery ==
    \/ __init__(PyNone, PyNone, "GEWV", PyNone, ExternalClient)
    \/ \E kw \in AllKwargs, fault \in QueryFaults : get_points(kw, fault)
    \/ \E kw \in AllKwargs, fault \in QueryFaults : get_dataframe(kw, fault)
    \/ \E kw \in AllKwargs : BuildQuery(kw)

SpecQuery == Init /\ [][NextQuery]_vars

(* SpecWrite: sequences of frame writes, with the tag-column argument       *)
(* omitted or bound to the caller's list.                                   *)

NextWrite ==
    \/ __init__(PyNone, PyNone, "GEWV", PyNone, ExternalClient)
    \/ CallerNewList(<< "device" >>)
    \/ \E project \in Projects, fault \in QueryFaults : write_points(project, Points, fault)
    \/ \E project \in Projects, dataframe \in Frames, tag_columns \in { "omitted", "caller" },
          additional_tags \in { PyNone } \cup TagMaps, fault \in QueryFaults :
          write_a_dataframe(project, "power", dataframe, tag_columns, additional_tags, fault)

SpecWrite == Init /\ [][NextWrite]_vars

---------------------------------------------------------------------------
(* Properties. *)

Reads == { "get_points", "get_dataframe" }

\* the single call of the last operation, when it made exactly one
TheCall == calls[1]

UnreachableError == Exception("Influx DB is not reachable.")
UnhealthyError   == Exception("Influx DB is not reachable or unhealthy.")

\* C1: create_bucket never raises when the store answers the creation with
\* success or with the "already exists" status 422; creating a bucket that
\* exists already takes the 422 path and returns normally.
C1_IdempotentCreate ==
    (op = "create_bucket" /\ TheCall.out \in { Ok, ApiException(422) })
        => /\ raised = NoError
           /\ Len(calls) = 1
           /\ (TheCall.out = Ok => args.bucket \in store_buckets)

\* the bucket existed already, the store answered 422, the call returned
C1_Witness ==
    /\ op = "create_bucket"
    /\ args.bucket \in store_buckets
    /\ TheCall.out = ApiException(422)
    /\ raised = NoError

ConfigurationErrors ==
    { Exception("Missing Host Address for Timeseries DB Client."),
      Exception("Missing Port for Timeseries DB Client."),
      Exception("Missing Token for Timeseries DB Client.") }

\* C2: __init__ without an external client and with host, port or token
\* missing raises a configuration error, constructs no client and derives no
\* delegate; otherwise it succeeds and derives all three delegates from the
\* client it holds.
C2_Construction ==
    op = "__init__" =>
        IF args.client = PyNone /\ PyNone \in { args.host, args.port, args.token }
        THEN /\ raised \in ConfigurationErrors
             /\ calls = << >>
             /\ _client = Unset
             /\ _write_api = Unset /\ _query_api = Unset /\ _bucket_api = Unset
        ELSE /\ raised = NoError
             /\ _client.type = "InfluxDBClient"
             /\ args.client # PyNone => _client = args.client
             /\ _write_api = WriteApi(_client)
             /\ _query_api = QueryApi(_client)
             /\ _bucket_api = BucketsApi(_client)

\* only the token is missing, and construction failed before anything was built
C2_Witness ==
    /\ op = "__init__"
    /\ args.client = PyNone /\ args.host # PyNone /\ args.port # PyNone
    /\ args.token = PyNone
    /\ raised = Exception("Missing Token for Timeseries DB Client.")
    /\ calls = << >>
    /\ _client = Unset

\* a bound that is given but is no datetime, or is a datetime without tzinfo
Invalid(t) == t # PyNone /\ (t.type # "datetime" \/ t.tzinfo = "None")

InvalidTimestampErrors ==
    { Exception("The delivered datetime is not from type datetime."),
      Exception("The time 2021-01-01T00:00:00 has no timezone info. That is necassary."),
      Exception("The time 2021-06-01T12:30:00 has no timezone info. That is necassary.") }

\* C3: a read or build_query given a start_time or end_time that is no
\* datetime or has no timezone fails with the invalid-timestamp error, has
\* built nothing beyond the from stage, and never invokes the query delegate.
C3_InvalidTimestamp ==
    (op \in Reads \cup { "build_query" }
        /\ (Invalid(args.start_time) \/ Invalid(args.end_time)))
        => /\ raised \in InvalidTimestampErrors
           /\ calls = << >>
           /\ result = PyNone
           /\ query = << Stage("from", << <<"bucket", args.project>> >>) >>

\* both bounds given, only the end is naive, and nothing was sent
C3_Witness ==
    /\ op = "get_points"
    /\ args.start_time = Aware1
    /\ args.end_time = Naive2
    /\ raised = Exception("The time 2021-06-01T12:30:00 has no timezone info. That is necassary.")
    /\ calls = << >>

RangeStages == { i \in 1..Len(query) : query[i].stage = "range" }

\* an aware datetime in ISO-8601 with its offset
Iso(t) == t.v \o t.tzinfo

\* C6: with aware bounds, build_query emits one range clause with start and
\* stop when both are given, with start only or stop only when one is given,
\* and none when neither is; without bounds and filters the query is the
\* from stage followed by the aggregateWindow and yield stages.
C6_RangeByCase ==
    (op \in Reads \cup { "build_query" }
        /\ ~Invalid(args.start_time) /\ ~Invalid(args.end_time))
        => /\ raised.type # "Exception"
           /\ query[1] = Stage("from", << <<"bucket", args.project>> >>)
           /\ IF args.start_time # PyNone /\ args.end_time # PyNone
              THEN /\ RangeStages = { 2 }
                   /\ query[2].params = << <<"start", Iso(args.start_time)>>,
                                           <<"stop", Iso(args.end_time)>> >>
              ELSE IF args.start_time # PyNone
              THEN /\ RangeStages = { 2 }
                   /\ query[2].params = << <<"start", Iso(args.start_time)>> >>
              ELSE IF args.end_time # PyNone
              THEN /\ RangeStages = { 2 }
                   /\ query[2].params = << <<"stop", Iso(args.end_time)>> >>
              ELSE /\ RangeStages = { }
                   /\ args.fields = << >> =>
                        query = << Stage("from", << <<"bucket", args.project>> >>),
                                   Stage("aggregateWindow",
                                         << <<"every", args.precision>>, <<"fn", "mean">>,
                                            <<"createEmpty", "true">> >>),
                                   Stage("yield", << <<"name", "mean">> >>) >>

\* only the end bound is given: one range clause with stop and no start
C6_Witness ==
    /\ op = "build_query"
    /\ args.start_time = PyNone
    /\ args.end_time = Aware2
    /\ query[2] = Stage("range", << <<"stop", "2021-06-01T12:30:00+02:00">> >>)

StagesNamed(name) == { i \in 1..Len(query) : query[i].stage = name }

\* C7: a query built from N field filters holds exactly N filter stages, the
\* i-th being the equality filter of the i-th entry, all after the from stage
\* and the optional range stage and before the one aggregateWindow stage and
\* the final yield stage.
C7_Filters ==
    (op \in Reads \cup { "build_query" } /\ raised.type # "Exception")
        => LET n == Len(args.fields)
               r == Cardinality(RangeStages)
           IN  /\ Len(query) = 1 + r + n + 2
               /\ StagesNamed("from") = { 1 }
               /\ RangeStages \subseteq { 2 }
               /\ StagesNamed("filter") = (2 + r)..(1 + r + n)
               /\ \A i \in 1..n :
                    query[1 + r + i].params = << << args.fields[i][1], args.fields[i][2] >> >>
               /\ StagesNamed("aggregateWindow") = { Len(query) - 1 }
               /\ StagesNamed("yield") = { Len(query) }

\* two filters after a range clause, in mapping order
C7_Witness ==
    /\ op = "build_query"
    /\ args.fields = << <<"room", "r7">>, <<"device", "d1">> >>
    /\ args.start_time = Aware1
    /\ query[3] = Stage("filter", << <<"room", "r7">> >>)
    /\ query[4] = Stage("filter", << <<"device", "d1">> >>)
    /\ Len(query) = 6

TagItems == args.additional_tags.items
TagNamesOf(items) == [i \in 1..Len(items) |-> items[i][1]]

\* C4: the tag-column list a write_a_dataframe call forwards is that call's
\* tag_columns argument (empty when omitted) followed by that call's
\* additional tag names, whatever earlier calls did, and the caller's list is
\* the same after the call as before it.
C4_PrivateTagColumns ==
    op = "write_a_dataframe" =>
        LET given == IF args.tag_columns = "omitted" THEN << >>
                     ELSE args.caller_list_at_entry
            added == IF args.additional_tags = PyNone THEN << >>
                     ELSE TagNamesOf(TagItems)
        IN  /\ TheCall.arg.data_frame_tag_columns = given \o added
            /\ caller_tag_columns = args.caller_list_at_entry

\* C5: create_bucket re-raises every failure of the bucket delegate but the
\* ApiException with status 422; the reads and writes raise exactly what
\* their delegate raised, and each invokes its delegate once.
C5_NoErrorSwallowed ==
    /\ op = "create_bucket" =>
          /\ Len(calls) = 1
          /\ (IsError(TheCall.out) /\ TheCall.out # ApiException(422))
                => raised = TheCall.out
    /\ op \in { "write_points", "write_a_dataframe" } =>
          /\ Len(calls) = 1
          /\ TheCall.api = "write_api"
          /\ raised = (IF IsError(TheCall.out) THEN TheCall.out ELSE NoError)
    /\ (op \in Reads /\ ~Invalid(args.start_time) /\ ~Invalid(args.end_time)) =>
          /\ Len(calls) = 1
          /\ TheCall.api = "query_api"
          /\ raised = (IF IsError(TheCall.out) THEN TheCall.out ELSE NoError)

\* the bucket delegate failed with a server error and create_bucket raised it
C5_Witness ==
    /\ op = "create_bucket"
    /\ TheCall.out = ApiException(500)
    /\ raised = ApiException(500)

\* C8: with additional_tags, write_a_dataframe forwards one write whose
\* tag-column list is tag_columns as it was on entry followed by the tag
\* names in mapping order, and whose frame keeps the index, rows and columns
\* of the input and gains one column per tag holding the tag's value in every
\* row; without additional_tags it forwards the frame and tag_columns as they
\* are.
C8_TagEnrichment ==
    op = "write_a_dataframe" =>
        /\ Len(calls) = 1
        /\ TheCall.api = "write_api" /\ TheCall.method = "write"
        /\ TheCall.arg.bucket = args.project
        /\ TheCall.arg.data_frame_measurement_name = args.measurement_name
        /\ LET df  == args.dataframe
               out == TheCall.arg.record
               k   == Len(df.columns)
           IN  IF args.additional_tags = PyNone
               THEN /\ out = df
                    /\ TheCall.arg.data_frame_tag_columns = args.tag_columns_at_entry
               ELSE /\ TheCall.arg.data_frame_tag_columns =
                          args.tag_columns_at_entry \o TagNamesOf(TagItems)
                    /\ out.index = df.index
                    /\ out.columns = df.columns \o TagNamesOf(TagItems)
                    /\ Len(out.data) = k + Len(TagItems)
                    /\ \A c \in 1..k : out.data[c] = df.data[c]
                    /\ \A t \in 1..Len(TagItems) :
                          /\ Len(out.data[k + t]) = Len(df.index)
                          /\ \A row \in 1..Len(df.index) :
                                out.data[k + t][row] = TagItems[t][2]

\* ["device"] with {"site": "A"} on the largest frame gives ["device", "site"]
C8_Witness ==
    /\ op = "write_a_dataframe"
    /\ args.tag_columns = "caller"
    /\ args.tag_columns_at_entry = << "device" >>
    /\ args.additional_tags = Dict(<< <<"site", "A">> >>)
    /\ Rows(args.dataframe) = MaxRows
    /\ TheCall.arg.data_frame_tag_columns = << "device", "site" >>
    /\ TheCall.arg.record.columns = << "device", "value", "site" >>
    /\ TheCall.arg.record.data[3] = Repeat("A", MaxRows)

\* C9: connect calls the health probe once and nothing else, raises the
\* unreachable error exactly when the probe returned a falsy value, and
\* returns normally when it returned a truthy one.
C9_Connect ==
    op = "connect" =>
        /\ Len(calls) = 1
        /\ TheCall.api = "client" /\ TheCall.method = "health"
        /\ raised = UnreachableError
              <=> (~IsError(TheCall.out) /\ TheCall.out \in { PyNone, PyFalse })
        /\ (~IsError(TheCall.out) /\ TheCall.out.type = "HealthCheck") => raised = NoError

\* the probe returned False and connect raised
C9_Witness ==
    /\ op = "connect"
    /\ TheCall.out = PyFalse
    /\ raised = UnreachableError

\* C10: get_points and get_dataframe never call the health probe and never
\* raise the unhealthy error, whatever the store's health; with valid query
\* parameters they build the query and invoke the query delegate once with it.
C10_ReadIgnoresHealth ==
    op \in Reads =>
        /\ \A i \in 1..Len(calls) : calls[i].method # "health"
        /\ raised # UnhealthyError
        /\ (~Invalid(args.start_time) /\ ~Invalid(args.end_time)) =>
              /\ Len(calls) = 1
              /\ TheCall.api = "query_api"
              /\ TheCall.method = (IF op = "get_points" THEN "query" ELSE "query_data_frame")
              /\ Len(TheCall.arg.query) >= 3
              /\ TheCall.arg.query = query

\* the store's probe would answer falsy, and the read still queried
C10_Witness ==
    /\ op = "get_dataframe"
    /\ ~Truthy(store_health)
    /\ Len(calls) = 1
    /\ TheCall.method = "query_data_frame"
    /\ raised = NoError

=============================================================================
